---------------------------- MODULE Spec2Model ----------------------------
(***************************************************************************)
(* Model of src/server.py: a thread-per-connection static file HTTP server *)
(* (class HTTPServer).                                                     *)
(*                                                                         *)
(* Text (Python str and bytes) is a sequence of one-character strings, so  *)
(* that splitting, percent-decoding, URL parsing and path normalisation    *)
(* are computed the way the library functions the code calls compute them. *)
(* The byte "xFF" stands for a byte that is not valid UTF-8.               *)
(***************************************************************************)
EXTENDS Integers, Sequences, FiniteSets, TLC

(***************************************************************************)
(* Generic text helpers                                                    *)
(***************************************************************************)
Min(a, b) == IF a < b THEN a ELSE b

Take(s, n) == SubSeq(s, 1, Min(n, Len(s)))

Drop(s, n) == SubSeq(s, n + 1, Len(s))

StartsWith(s, p) == Len(p) <= Len(s) /\ SubSeq(s, 1, Len(p)) = p

EndsWith(s, p) == Len(p) <= Len(s) /\ SubSeq(s, Len(s) - Len(p) + 1, Len(s)) = p

\* Index of the first element of s that lies in the set cs, 0 when none.
FindAny(s, cs) ==
    IF \E i \in 1..Len(s) : s[i] \in cs
    THEN CHOOSE i \in 1..Len(s) : s[i] \in cs /\ \A j \in 1..(i - 1) : s[j] \notin cs
    ELSE 0

\* Index of the last element of s that lies in the set cs, 0 when none.
RFindAny(s, cs) ==
    IF \E i \in 1..Len(s) : s[i] \in cs
    THEN CHOOSE i \in 1..Len(s) : s[i] \in cs /\ \A j \in (i + 1)..Len(s) : s[j] \notin cs
    ELSE 0

RECURSIVE Concat(_)
Concat(ss) == IF ss = <<>> THEN <<>> ELSE Head(ss) \o Concat(Tail(ss))

\* sep.join(parts)
RECURSIVE Join(_, _)
Join(parts, sep) ==
    IF parts = <<>> THEN <<>>
    ELSE IF Len(parts) = 1 THEN parts[1]
    ELSE parts[1] \o sep \o Join(Tail(parts), sep)

\* str.split(sep) for a one-character separator: keeps empty fields.
\* SplitAt cuts at index i, the first separator (0 when there is none).
RECURSIVE SplitOn(_, _)
SplitAt(s, ch, i) ==
    IF i = 0 THEN <<s>> ELSE <<Take(s, i - 1)>> \o SplitOn(Drop(s, i), ch)

SplitOn(s, ch) == SplitAt(s, ch, FindAny(s, {ch}))

Whitespace == {" ", "\t", "\n", "\r"}

\* str.strip()
RECURSIVE LStrip(_)
LStrip(s) == IF s # <<>> /\ Head(s) \in Whitespace THEN LStrip(Tail(s)) ELSE s

RECURSIVE RStrip(_)
RStrip(s) ==
    IF s # <<>> /\ s[Len(s)] \in Whitespace THEN RStrip(Take(s, Len(s) - 1)) ELSE s

Strip(s) == RStrip(LStrip(s))

\* str.split() without argument: fields are the maximal runs of
\* non-whitespace characters; no empty field is produced. SplitWsAt cuts
\* the left-stripped text t at index i, its first whitespace character.
RECURSIVE SplitWs(_)
SplitWsAt(t, i) ==
    IF t = <<>> THEN <<>>
    ELSE IF i = 0 THEN <<t>>
    ELSE <<Take(t, i - 1)>> \o SplitWs(Drop(t, i))

SplitWsFrom(t) == SplitWsAt(t, FindAny(t, Whitespace))

SplitWs(s) == SplitWsFrom(LStrip(s))


(***************************************************************************)
(* urllib.parse.urlparse(url).path                                         *)
(***************************************************************************)
Letters ==
    {"a", "b", "c", "d", "e", "f", "g", "h", "i", "j", "k", "l", "m", "n", "o", "p", "q",
     "r", "s", "t", "u", "v", "w", "x", "y", "z",
     "D", "E", "F", "G", "H", "O", "P", "S", "T"}

Digits == {"0", "1", "2", "3", "4", "5", "6", "7", "8", "9"}

\* urllib.parse.scheme_chars
SchemeChars == Letters \cup Digits \cup {"+", "-", "."}

LowerOf ==
    [ch \in {"D", "E", "F", "G", "H", "O", "P", "S", "T"} |->
        CASE ch = "D" -> "d" [] ch = "E" -> "e" [] ch = "F" -> "f" [] ch = "G" -> "g"
          [] ch = "H" -> "h" [] ch = "O" -> "o" [] ch = "P" -> "p" [] ch = "S" -> "s"
          [] ch = "T" -> "t"]

\* str.lower()
Lower(s) == [i \in 1..Len(s) |-> IF s[i] \in DOMAIN LowerOf THEN LowerOf[s[i]] ELSE s[i]]

\* urllib.parse.uses_params, the schemes whose last path segment may carry
\* ";parameters" (the entries a request target of the model can name).
UsesParams ==
    {<<>>, <<"f", "t", "p">>, <<"h", "t", "t", "p">>, <<"h", "t", "t", "p", "s">>}

\* urlsplit: the text before the first ":" (at index i) is a scheme when
\* it starts with a letter and consists of scheme characters.
HasScheme(url, i) ==
    i > 1 /\ url[1] \in Letters /\ \A j \in 1..(i - 1) : url[j] \in SchemeChars

SchemeAt(url, i) == IF HasScheme(url, i) THEN Lower(Take(url, i - 1)) ELSE <<>>

AfterSchemeAt(url, i) == IF HasScheme(url, i) THEN Drop(url, i) ELSE url

UrlScheme(url) == SchemeAt(url, FindAny(url, {":"}))

UrlAfterScheme(url) == AfterSchemeAt(url, FindAny(url, {":"}))

\* urlsplit / _splitnetloc: after "//" the authority runs up to the first
\* of "/", "?", "#" (at index d of the text after "//"); what follows is
\* the rest.
RestAfterAuthority(rest, d) == IF d = 0 THEN <<>> ELSE Drop(rest, d - 1)

AfterAuthority(rest) == RestAfterAuthority(rest, FindAny(rest, {"/", "?", "#"}))

UrlAfterNetloc(url) ==
    IF Take(url, 2) = <<"/", "/">> THEN AfterAuthority(Drop(url, 2)) ELSE url

\* str.split(ch, 1)[0]
CutAt(s, i) == IF i = 0 THEN s ELSE Take(s, i - 1)

BeforeFirst(s, ch) == CutAt(s, FindAny(s, {ch}))

\* urllib.parse._splitparams(url)[0]: the path is cut at the first ";"
\* found from the last "/" on; from is the number of characters before
\* that "/".
CutParams(url, from, i) == IF i = 0 THEN url ELSE Take(url, from + i - 1)

SplitParamsFrom(url, from) == CutParams(url, from, FindAny(Drop(url, from), {";"}))

LastSlashOffset(sl) == IF sl = 0 THEN 0 ELSE sl - 1

SplitParamsPath(url) == SplitParamsFrom(url, LastSlashOffset(RFindAny(url, {"/"})))

\* urlparse: params are split off for the schemes of uses_params.
ParamsCut(scheme, path) ==
    IF scheme \in UsesParams /\ \E i \in 1..Len(path) : path[i] = ";"
    THEN SplitParamsPath(path)
    ELSE path

\* urlparse(url).path
UrlPath(url) ==
    ParamsCut(UrlScheme(url),
              BeforeFirst(BeforeFirst(UrlAfterNetloc(UrlAfterScheme(url)), "#"), "?"))

(***************************************************************************)
(* urllib.parse.unquote                                                    *)
(***************************************************************************)
HexVal ==
    [ch \in Digits \cup {"a", "b", "c", "d", "e", "f", "A", "B", "C", "D", "E", "F"} |->
        CASE ch = "0" -> 0 [] ch = "1" -> 1 [] ch = "2" -> 2 [] ch = "3" -> 3
          [] ch = "4" -> 4 [] ch = "5" -> 5 [] ch = "6" -> 6 [] ch = "7" -> 7
          [] ch = "8" -> 8 [] ch = "9" -> 9
          [] ch \in {"a", "A"} -> 10 [] ch \in {"b", "B"} -> 11 [] ch \in {"c", "C"} -> 12
          [] ch \in {"d", "D"} -> 13 [] ch \in {"e", "E"} -> 14 [] ch \in {"f", "F"} -> 15]

\* The character a decoded byte stands for. Bytes from 128 on do not form
\* valid UTF-8 on their own and decode to the replacement character
\* (errors='replace'); the ASCII codes listed are those of the characters
\* that request targets of the model can encode.
CharOfByte(b) ==
    CASE b = 32 -> " " [] b = 35 -> "#" [] b = 37 -> "%" [] b = 45 -> "-"
      [] b = 46 -> "." [] b = 47 -> "/" [] b = 58 -> ":" [] b = 59 -> ";"
      [] b = 63 -> "?" [] b = 119 -> "w" [] b = 120 -> "x"
      [] b >= 128 -> "U+FFFD"
      [] OTHER -> "U+00xx"

\* unquote(s): every "%" followed by two hex digits becomes the character
\* of that byte; any other "%" is kept. One pass: the output is not decoded
\* again.
RECURSIVE Unquote(_)
Unquote(s) ==
    IF s = <<>> THEN <<>>
    ELSE IF s[1] = "%" /\ Len(s) >= 3 /\ s[2] \in DOMAIN HexVal /\ s[3] \in DOMAIN HexVal
    THEN <<CharOfByte(16 * HexVal[s[2]] + HexVal[s[3]])>> \o Unquote(Drop(s, 3))
    ELSE <<s[1]>> \o Unquote(Tail(s))

(***************************************************************************)
(* os.path (posixpath)                                                     *)
(***************************************************************************)
\* os.path.join(a, b)
PathJoin(a, b) ==
    IF StartsWith(b, <<"/">>) THEN b
    ELSE IF a = <<>> \/ EndsWith(a, <<"/">>) THEN a \o b
    ELSE a \o <<"/">> \o b

\* The component stack of normpath: "" and "." are skipped, ".." removes
\* the component before it, except that it is kept at the start of a
\* relative path (or after another "..") and dropped at the root.
NormStep(c, acc, rooted) ==
    IF c = <<>> \/ c = <<".">> THEN acc
    ELSE IF c # <<".", ".">>
            \/ (~rooted /\ acc = <<>>)
            \/ (acc # <<>> /\ acc[Len(acc)] = <<".", ".">>)
    THEN Append(acc, c)
    ELSE IF acc # <<>> THEN Take(acc, Len(acc) - 1)
    ELSE acc

RECURSIVE NormComps(_, _, _)
NormComps(comps, acc, rooted) ==
    IF comps = <<>> THEN acc
    ELSE NormComps(Tail(comps), NormStep(Head(comps), acc, rooted), rooted)

\* The leading slashes normpath keeps: exactly two stay two, any other
\* number becomes one.
InitialSlashes(path) ==
    IF ~StartsWith(path, <<"/">>) THEN 0
    ELSE IF StartsWith(path, <<"/", "/">>) /\ ~StartsWith(path, <<"/", "/", "/">>) THEN 2
    ELSE 1

DotIfEmpty(res) == IF res = <<>> THEN <<".">> ELSE res

NormWith(path, slashes) ==
    DotIfEmpty([i \in 1..slashes |-> "/"]
               \o Join(NormComps(SplitOn(path, "/"), <<>>, slashes > 0), <<"/">>))

\* os.path.normpath(path)
NormPath(path) == NormWith(path, InitialSlashes(path))

\* The working directory of the server process.
Cwd == <<"/", "s", "r", "v">>

\* os.path.abspath(path)
AbsPath(path) == NormPath(IF StartsWith(path, <<"/">>) THEN path ELSE PathJoin(Cwd, path))


(***************************************************************************)
(* The server object (HTTPServer.__init__)                                 *)
(***************************************************************************)
\* self.www_dir = os.path.abspath('www')
www_dir == AbsPath(<<"w", "w", "w">>)

IndexHtml == <<"i", "n", "d", "e", "x", ".", "h", "t", "m", "l">>

\* _is_safe_path: a plain string prefix test on the normalised path.
_is_safe_path(path) == StartsWith(AbsPath(path), www_dir)

\* _resolve_file_path: "/" becomes "/index.html".
DefaultIndex(path) == IF path = <<"/">> THEN <<"/">> \o IndexHtml ELSE path

\* _resolve_file_path: one leading slash is removed.
StripSlash(path) == IF StartsWith(path, <<"/">>) THEN Tail(path) ELSE path

\* The path _resolve_file_path hands to the safety check.
ResolveCandidate(url_path) ==
    PathJoin(www_dir, StripSlash(DefaultIndex(Unquote(UrlPath(url_path)))))

None == <<"None">>

SafeOrNone(file_path) == IF _is_safe_path(file_path) THEN file_path ELSE None

\* _resolve_file_path(url_path): the joined path, or None when unsafe.
_resolve_file_path(url_path) == SafeOrNone(ResolveCandidate(url_path))


(***************************************************************************)
(* State                                                                   *)
(***************************************************************************)
VARIABLES
    running,        \* self.running
    srv,            \* where start() is
    lsock,          \* self.socket: "none", "open", "closed"
    lcloses,        \* times the listening socket was closed
    page404,        \* the content of www/404.html
    stopping,       \* stop() was called since start() was entered
    pc,             \* per connection: where its handler thread is
    inbuf,          \* per connection: what the peer has put on it
    request_data,   \* handle_client's request_data
    headers,        \* the headers list of the response being sent
    content,        \* the content of the response being sent
    frame,          \* "serve": the send is serve_file's; "error": send_error's
    wire,           \* per connection: the units the server has sent on it
    closes,         \* per connection: times the handler closed it
    touched         \* per connection: resolver and file system calls made

srvVars == <<running, srv, lsock, lcloses, page404, stopping>>

connVars == <<pc, inbuf, request_data, headers, content, frame, wire, closes, touched>>

vars == <<running, srv, lsock, lcloses, page404, stopping, pc, inbuf, request_data, headers,
          content, frame, wire, closes, touched>>

(***************************************************************************)
(* The file system the server runs on: no symbolic links. A path is looked *)
(* up the way the operating system does it, component by component, so     *)
(* "x/.." only resolves when x is an existing directory.                   *)
(*                                                                         *)
(*   /srv/www/index.html  /srv/www/a.css  /srv/www/s.php  /srv/www/404.html*)
(*   /srv/www/d/index.html      /srv/www/e/  (a directory without index)   *)
(*   /srv/www-s/x   (a sibling of the document root)      /srv/p           *)
(***************************************************************************)
Dirs ==
    {<<"/">>,
     <<"/", "s", "r", "v">>,
     <<"/", "s", "r", "v", "/", "w", "w", "w">>,
     <<"/", "s", "r", "v", "/", "w", "w", "w", "/", "d">>,
     <<"/", "s", "r", "v", "/", "w", "w", "w", "/", "e">>,
     <<"/", "s", "r", "v", "/", "w", "w", "w", "-", "s">>}

Path404 == PathJoin(www_dir, <<"4", "0", "4", ".", "h", "t", "m", "l">>)

\* The bytes of every regular file but www/404.html.
BaseFiles ==
    (<<"/", "s", "r", "v", "/", "w", "w", "w", "/", "i", "n", "d", "e", "x", ".", "h", "t", "m", "l">> :> <<"H", "i">>)
    @@ (<<"/", "s", "r", "v", "/", "w", "w", "w", "/", "a", ".", "c", "s", "s">> :> <<"c">>)
    @@ (<<"/", "s", "r", "v", "/", "w", "w", "w", "/", "s", ".", "p", "h", "p">> :> <<"p", "h">>)
    @@ (<<"/", "s", "r", "v", "/", "w", "w", "w", "/", "d", "/", "i", "n", "d", "e", "x", ".", "h", "t", "m", "l">> :> <<"D", "x">>)
    @@ (<<"/", "s", "r", "v", "/", "w", "w", "w", "-", "s", "/", "x">> :> <<"S", "x">>)
    @@ (<<"/", "s", "r", "v", "/", "p">> :> <<"P", "w">>)

\* www/404.html is a regular file of the tree. It cannot be opened (open
\* raises IOError), holds UTF-8 text, or holds bytes that are not valid
\* UTF-8.
Unreadable == <<"(unreadable)">>

Pages404 == {Unreadable, <<"N", "F">>, <<"xFF">>}

\* The bytes of every regular file, page being the state of www/404.html.
FileData(page) == BaseFiles @@ (Path404 :> page)

Missing == <<"(missing)">>

\* The regular files that exist.
Files == DOMAIN BaseFiles \cup {Path404}

ParentAt(dir, i) == IF i <= 1 THEN <<"/">> ELSE Take(dir, i - 1)

ParentDir(dir) == ParentAt(dir, RFindAny(dir, {"/"}))

\* One step of a path lookup from the directory cur.
WalkStep(c, cur) ==
    IF c = <<>> \/ c = <<".">> THEN cur
    ELSE IF c = <<".", ".">> THEN ParentDir(cur)
    ELSE IF PathJoin(cur, c) \in Dirs \cup Files THEN PathJoin(cur, c)
    ELSE Missing

\* Follows the components of a path from the node cur. Every step needs
\* cur to be a directory, an empty, "." or ".." step too.
RECURSIVE Walk(_, _)
Walk(comps, cur) ==
    IF comps = <<>> \/ cur = Missing THEN cur
    ELSE IF cur \notin Dirs THEN Missing
    ELSE Walk(Tail(comps), WalkStep(Head(comps), cur))

\* The node an absolute path names, or Missing.
Lookup(path) == Walk(SplitOn(Tail(path), "/"), <<"/">>)

\* os.path.isdir, os.path.exists, os.path.isfile
IsDir(path) == Lookup(path) \in Dirs

Exists(path) == Lookup(path) # Missing

IsFile(path) == Lookup(path) \in Files

(***************************************************************************)
(* Request parsing and dispatch (_process_request, handle_get_request)     *)
(***************************************************************************)
GET == <<"G", "E", "T">>

\* request_data.split('\n')[0].strip()
RequestLine(data) == Strip(SplitOn(data, "\n")[1])

\* request_line.split()
Parts(data) == SplitWs(RequestLine(data))

\* TargetFile with a slip: a directory is not replaced by its index.html.
TargetFileNoIndex(file_path) == file_path

\* The file handle_get_request looks for once the path is resolved: the
\* resolved path, or index.html inside it when it is a directory.
TargetFile(file_path) ==
    IF IsDir(file_path) THEN PathJoin(file_path, IndexHtml) ELSE file_path

\* handle_get_request from the existence test on: 404, or serve_file.
\* calls lists the resolver and file system calls made on the way.
CheckTarget(path, file_path, target) ==
    IF ~Exists(target)
    THEN [act |-> "error", status |-> 404, path |-> <<>>,
          calls |-> {<<"resolve", path>>, <<"isdir", file_path>>, <<"exists", target>>}]
    ELSE IF ~IsFile(target)
    THEN [act |-> "error", status |-> 404, path |-> <<>>,
          calls |-> {<<"resolve", path>>, <<"isdir", file_path>>, <<"exists", target>>,
                     <<"isfile", target>>}]
    ELSE [act |-> "serve", status |-> 200, path |-> target,
          calls |-> {<<"resolve", path>>, <<"isdir", file_path>>, <<"exists", target>>,
                     <<"isfile", target>>}]

\* handle_get_request once the path is resolved: 403 for None.
CheckResolved(path, file_path) ==
    IF file_path = None
    THEN [act |-> "error", status |-> 403, path |-> <<>>, calls |-> {<<"resolve", path>>}]
    ELSE CheckTarget(path, file_path, TargetFile(file_path))

\* What handle_get_request does with a request path: an error status, or
\* the file it passes to serve_file.
handle_get_request(path) == CheckResolved(path, _resolve_file_path(path))

\* _process_request from the token count on.
CheckParts(parts) ==
    IF Len(parts) < 2
    THEN [act |-> "error", status |-> 400, path |-> <<>>, calls |-> {}]
    ELSE IF parts[1] # GET
    THEN [act |-> "error", status |-> 405, path |-> <<>>, calls |-> {}]
    ELSE handle_get_request(parts[2])

\* _process_request from the request line on.
CheckLine(request_line) ==
    IF request_line = <<>>
    THEN [act |-> "error", status |-> 400, path |-> <<>>, calls |-> {}]
    ELSE CheckParts(SplitWs(request_line))

\* What _process_request does with the decoded request data.
_process_request(data) == CheckLine(RequestLine(data))

(***************************************************************************)
(* Responses (_get_mime_type, _build_response_headers, _send_response,     *)
(* _get_error_content)                                                     *)
(***************************************************************************)
\* mimetypes.guess_type by the extension of the last path component; None
\* becomes application/octet-stream.
MimeOfExt(ext) ==
    IF ext = <<".", "h", "t", "m", "l">> THEN "text/html"
    ELSE IF ext = <<".", "c", "s", "s">> THEN "text/css"
    ELSE "application/octet-stream"

\* posixpath.splitext: the extension starts at the last dot of the name,
\* unless that dot is the name's first character.
ExtAt(name, dot) == IF dot <= 1 THEN <<>> ELSE Drop(name, dot - 1)

ExtOf(name) == ExtAt(name, RFindAny(name, {"."}))

_get_mime_type(file_path) == MimeOfExt(ExtOf(Drop(file_path, RFindAny(file_path, {"/"}))))

\* The status text each call site passes along with the status code.
StatusText(status_code) ==
    CASE status_code = 200 -> "OK"
      [] status_code = 400 -> "Bad Request"
      [] status_code = 403 -> "Forbidden"
      [] status_code = 404 -> "File Not Found"
      [] status_code = 405 -> "Method Not Allowed"
      [] status_code = 500 -> "Internal Server Error"

\* The list _build_response_headers returns; every element is one piece of
\* text, the last one the string "\r\n".
_build_response_headers(status_code, status_text, content_type, content_length) ==
    << <<"HTTP/1.1 ", ToString(status_code), " ", status_text>>,
       <<"Content-Type: ", content_type>>,
       <<"Content-Length: ", ToString(content_length)>>,
       <<"Connection: close">>,
       <<"\r\n">> >>

CRLF == <<"\r\n">>

\* "\r\n".join(headers): the units of the header block as they are sent.
HeaderData(lines) == Join([i \in 1..Len(lines) |-> <<lines[i]>>], <<CRLF>>)

\* The units of a body as they are sent, one per byte.
ContentData(body) == [i \in 1..Len(body) |-> <<body[i]>>]

\* The generated pages. A page's text is kept as a few pieces, each of
\* which counts as one byte of content.
_get_default_404_page ==
    <<"<h1>404 - Page Not Found</h1>", "<a href=/>Torna alla homepage</a>">>

\* _get_error_content(status_code), given the text _get_404_page returned.
_get_error_content(status_code, page404text) ==
    CASE status_code = 404 -> page404text
      [] status_code = 403 -> <<"<h1>403 Forbidden</h1>", "<p>Access denied.</p>">>
      [] status_code = 405 ->
            <<"<h1>405 Method Not Allowed</h1>", "<p>Method not supported.</p>">>
      [] status_code = 500 ->
            <<"<h1>500 Internal Server Error</h1>", "<p>Internal server error.</p>">>
      [] status_code = 400 -> <<"<h1>400 Bad Request</h1>", "<p>Malformed request.</p>">>
      [] OTHER -> <<"<h1>", ToString(status_code), " Error</h1>">>

\* bytes.decode('utf-8') and text-mode reading fail on a byte that is not
\* valid UTF-8, and are the identity on ASCII.
Decodable(bytes) == \A i \in 1..Len(bytes) : bytes[i] # "xFF"

(***************************************************************************)
(* What a peer may send                                                    *)
(***************************************************************************)
POST == <<"P", "O", "S", "T">>

LowerGet == <<"g", "e", "t">>

HTTP11 == <<"H", "T", "T", "P", "/", "1", ".", "1">>

HTTP20 == <<"H", "T", "T", "P", "/", "2", ".", "0">>

FOO == <<"F", "O", "O">>

IndexTarget == <<"/">> \o IndexHtml

Targets ==
    {<<"/">>,
     <<"/", "i", "n", "d", "e", "x", ".", "h", "t", "m", "l">>,
     <<"/", "a", ".", "c", "s", "s">>,
     <<"/", "s", ".", "p", "h", "p">>,
     <<"/", "d">>,
     <<"/", "e">>,
     <<"/", "m">>,
     <<".">>,
     <<"/", "?", "q">>,
     <<"?", "q">>,
     <<"/", ".", ".", "/", "w", "w", "w", "-", "s", "/", "x">>,
     <<"/", ".", ".", "/", "p">>,
     <<"/", "%", "2", "e", "%", "2", "e", "%", "2", "f", "p">>,
     <<"/", "%", "2", "e", "%", "2", "e", "/", "w", "w", "w", "-", "s", "/", "x">>,
     <<"h", "t", "t", "p", ":", "/", "/", "h", "/", "i", "n", "d", "e", "x", ".", "h", "t", "m", "l">>,
     <<"/", "/", "h", "/", "i", "n", "d", "e", "x", ".", "h", "t", "m", "l">>}

\* A request: the tokens separated by single spaces, then CRLF.
Req(tokens) == Join(tokens, <<" ">>) \o <<"\r", "\n">>

GetIndex == Req(<<GET, IndexTarget, HTTP11>>)

Undecodable == <<"G", "E", "T", " ", "/", "xFF">>

\* One request for every way through the handler: bytes that are not
\* UTF-8, a one-token line (400), another method (405), a path outside the
\* document root (403), a missing file (404) and an existing file (200).
CoreRequests ==
    {Undecodable, Req(<<GET>>), Req(<<POST, IndexTarget, HTTP11>>),
     Req(<<GET, <<"/", ".", ".", "/", "p">>, HTTP11>>), Req(<<GET, <<"/", "m">>, HTTP11>>),
     GetIndex}

\* Request lines with 0, 1, 2, 3 and 4 tokens, other methods and other
\* versions; one with leading whitespace and a header line after it.
ParseRequests ==
    {Req(<<>>), Req(<<GET>>), Req(<<GET, IndexTarget>>), Req(<<POST, IndexTarget>>),
     Req(<<GET, IndexTarget, HTTP11, <<"x">> >>), Req(<<POST, IndexTarget, HTTP11, <<"x">> >>),
     <<" ">> \o GetIndex \o <<"H", ":", "h", "\r", "\n", "\r", "\n">>}
    \cup {Req(<<m, IndexTarget, v>>) : m \in {GET, POST}, v \in {HTTP11, HTTP20, FOO}}

\* Well-formed requests with a method other than GET, and one GET.
MethodRequests ==
    {Req(<<m, t, HTTP11>>) : m \in {POST, LowerGet}, t \in {IndexTarget, <<"/", "m">>}}
    \cup {GetIndex}

\* A GET for every target.
PathRequests == {Req(<<GET, t, HTTP11>>) : t \in Targets}

\* For handlers running side by side: bytes that are not UTF-8, a
\* one-token line and an existing file.
PairRequests == {Undecodable, Req(<<GET>>), GetIndex}

\* Every request a peer sends in some specification.
Requests ==
    CoreRequests \cup ParseRequests \cup MethodRequests \cup PathRequests \cup PairRequests

\* What _process_request does with each of them.
Dispatch == [data \in Requests |-> _process_request(data)]

\* The paths serve_file is called with.
ServedPaths == {Dispatch[data].path : data \in {r \in Requests : Dispatch[r].act = "serve"}}

\* The file each of them names, and the type _get_mime_type gives it.
Node == [file_path \in ServedPaths |-> Lookup(file_path)]

MimeType == [file_path \in ServedPaths |-> _get_mime_type(file_path)]

(***************************************************************************)
(* Bounds                                                                  *)
(***************************************************************************)
\* Connections a behaviour accepts.
MaxConn == 2

\* Trailing units a send may leave unsent when it accepts only part of its
\* buffer.
MaxShort == 1

\* client_socket.recv(1024)
RecvSize == 1024

Conns == 1..MaxConn

\* Values of inbuf besides request bytes: nothing yet, and a connection
\* reset. The empty sequence is the peer's orderly close.
Nothing == <<"(nothing)">>

Reset == <<"(reset)">>

Eof == <<>>

Init ==
    /\ running = FALSE
    /\ srv = "new"
    /\ lsock = "none"
    /\ lcloses = 0
    /\ page404 \in Pages404
    /\ stopping = FALSE
    /\ pc = [c \in Conns |-> "idle"]
    /\ inbuf = [c \in Conns |-> Nothing]
    /\ request_data = [c \in Conns |-> <<>>]
    /\ headers = [c \in Conns |-> <<>>]
    /\ content = [c \in Conns |-> <<>>]
    /\ frame = [c \in Conns |-> "none"]
    /\ wire = [c \in Conns |-> <<>>]
    /\ closes = [c \in Conns |-> 0]
    /\ touched = [c \in Conns |-> {}]

(***************************************************************************)
(* The acceptor: start, _run_server_loop, stop, _cleanup                   *)
(***************************************************************************)
\* start(): _setup_socket creates the listening socket. The call is made
\* before start()'s try.
SetupSocket ==
    /\ srv = "new"
    /\ lsock' = "open"
    /\ srv' = "setup"
    /\ UNCHANGED <<running, lcloses, page404, stopping>>
    /\ UNCHANGED connVars

\* _setup_socket: setsockopt(SO_REUSEADDR) and settimeout(1) succeed, and
\* start() enters its try.
SetupOptions ==
    /\ srv = "setup"
    /\ srv' = "bind"
    /\ UNCHANGED <<running, lsock, lcloses, page404, stopping>>
    /\ UNCHANGED connVars

\* _setup_socket is left by an exception once the socket exists (an
\* OSError of setsockopt or settimeout, or a KeyboardInterrupt): start() is
\* not yet in its try, so the exception leaves start() without _cleanup.
SetupFails ==
    /\ srv = "setup"
    /\ srv' = "stopped"
    /\ UNCHANGED <<running, lsock, lcloses, page404, stopping>>
    /\ UNCHANGED connVars

\* _bind_and_listen succeeds.
BindAndListen ==
    /\ srv = "bind"
    /\ srv' = "enter"
    /\ UNCHANGED <<running, lsock, lcloses, page404, stopping>>
    /\ UNCHANGED connVars

\* _bind_and_listen raises (address in use): start() goes to its finally.
BindFails ==
    /\ srv = "bind"
    /\ srv' = "cleanup"
    /\ UNCHANGED <<running, lsock, lcloses, page404, stopping>>
    /\ UNCHANGED connVars

\* _run_server_loop: self.running = True
EnterLoop ==
    /\ srv = "enter"
    /\ running' = TRUE
    /\ srv' = "loop"
    /\ UNCHANGED <<lsock, lcloses, page404, stopping>>
    /\ UNCHANGED connVars

\* while self.running: the loop test.
LoopTest ==
    /\ srv = "loop"
    /\ srv' = IF running THEN "accept" ELSE "cleanup"
    /\ UNCHANGED <<running, lsock, lcloses, page404, stopping>>
    /\ UNCHANGED connVars

\* accept() returns a connection and _handle_client_in_thread starts its
\* handler thread. The accepted socket is a blocking socket without timeout.
\* Connections are numbered in the order they are accepted.
Accept(c) ==
    /\ srv = "accept"
    /\ pc[c] = "idle"
    /\ \A d \in Conns : d < c => pc[d] # "idle"
    /\ pc' = [pc EXCEPT ![c] = "recv"]
    /\ srv' = "loop"
    /\ UNCHANGED <<running, lsock, lcloses, page404, stopping>>
    /\ UNCHANGED <<inbuf, request_data, headers, content, frame, wire, closes, touched>>

\* accept() times out after a second: continue.
AcceptTimeout ==
    /\ srv = "accept"
    /\ srv' = "loop"
    /\ UNCHANGED <<running, lsock, lcloses, page404, stopping>>
    /\ UNCHANGED connVars

\* accept() or the thread start raises another exception: break.
AcceptFails ==
    /\ srv = "accept"
    /\ srv' = "cleanup"
    /\ UNCHANGED <<running, lsock, lcloses, page404, stopping>>
    /\ UNCHANGED connVars

\* KeyboardInterrupt inside the loop's try: running is cleared, break.
Interrupt ==
    /\ srv = "accept"
    /\ running' = FALSE
    /\ srv' = "cleanup"
    /\ UNCHANGED <<lsock, lcloses, page404, stopping>>
    /\ UNCHANGED connVars

\* stop(), called from another thread at any moment from the entry of
\* start() on: it only clears the flag. (Before start() the flag is already
\* False and the call changes nothing.)
Stop ==
    /\ srv \notin {"new", "exited"}
    /\ running' = FALSE
    /\ stopping' = TRUE
    /\ UNCHANGED <<srv, lsock, lcloses, page404>>
    /\ UNCHANGED connVars

\* start()'s finally: _cleanup closes the listening socket.
Cleanup ==
    /\ srv = "cleanup"
    /\ lsock' = IF lsock = "open" THEN "closed" ELSE lsock
    /\ lcloses' = IF lsock # "none" THEN lcloses + 1 ELSE lcloses
    /\ srv' = "stopped"
    /\ UNCHANGED <<running, page404, stopping>>
    /\ UNCHANGED connVars

\* main(): start() has returned, main returns and the interpreter exits.
\* The handler threads are daemon threads (thread.daemon = True): those
\* still running are ended where they are, and their sockets are left to
\* the operating system.
Exit ==
    /\ srv = "stopped"
    /\ srv' = "exited"
    /\ pc' = [c \in Conns |-> IF pc[c] \in {"idle", "done"} THEN pc[c] ELSE "killed"]
    /\ UNCHANGED <<running, lsock, lcloses, page404, stopping>>
    /\ UNCHANGED <<inbuf, request_data, headers, content, frame, wire, closes, touched>>

(***************************************************************************)
(* The peer of a connection                                                *)
(***************************************************************************)
\* The peer's bytes arrive (data, one of reqs), or it closes (Eof) or
\* resets (Reset) the connection without having sent anything. A peer may
\* also stay silent for ever. What arrived before the handler's recv is
\* what that recv gets, so arrival is only modelled once the handler waits
\* for it.
PeerActs(c, reqs) ==
    /\ pc[c] = "recv"
    /\ inbuf[c] = Nothing
    /\ \E data \in reqs \cup {Eof, Reset} : inbuf' = [inbuf EXCEPT ![c] = data]
    /\ UNCHANGED srvVars
    /\ UNCHANGED <<pc, request_data, headers, content, frame, wire, closes, touched>>

(***************************************************************************)
(* The handler thread of one connection (handle_client)                    *)
(***************************************************************************)
\* What reading www/404.html in _get_404_page leads to: its text, the
\* default page after an IOError, or a UnicodeDecodeError that leaves
\* _get_error_content (only IOError is caught there).
Read404Result ==
    IF page404 = Unreadable THEN "io_error"
    ELSE IF Decodable(page404) THEN "text"
    ELSE "decode_error"

\* _get_404_page()
_get_404_page == IF Read404Result = "text" THEN page404 ELSE _get_default_404_page

\* send_error builds the headers for its content and enters its try.
ErrorReady(c, status_code, body) ==
    /\ content' = [content EXCEPT ![c] = body]
    /\ headers' = [headers EXCEPT ![c] =
            _build_response_headers(status_code, StatusText(status_code),
                                    "text/html; charset=utf-8", Len(body))]
    /\ frame' = [frame EXCEPT ![c] = "error"]
    /\ pc' = [pc EXCEPT ![c] = "send_headers"]

\* send_error(client_socket, status_code, ...) called from `caller`:
\* "process" (_process_request and handle_get_request), "serve"
\* (serve_file's except clauses) or "except" (_send_error_safe in
\* handle_client's except clause). _get_error_content builds the whole
\* table of pages and so reads www/404.html for every status. When that
\* raises, the exception leaves send_error: _send_error_safe swallows it,
\* the other callers let it reach handle_client's except clause. Otherwise
\* the response is ready to be sent inside send_error's try. calls are the
\* resolver and file system calls the caller made on the way.
send_error(c, status_code, caller, calls) ==
    /\ touched' = [touched EXCEPT ![c] = @ \cup calls \cup {<<"open", Path404>>}]
    /\ IF Read404Result = "decode_error"
       THEN /\ pc' = [pc EXCEPT ![c] = IF caller = "except" THEN "close" ELSE "except"]
            /\ UNCHANGED <<headers, content, frame>>
       ELSE ErrorReady(c, status_code, _get_error_content(status_code, _get_404_page))

\* Recv with a slip: the empty read is not tested for and is handled as a
\* failure, by the except clause.
RecvEmptyRaises(c) ==
    /\ pc[c] = "recv"
    /\ inbuf[c] # Nothing
    /\ IF inbuf[c] = Reset \/ ~Decodable(Take(inbuf[c], RecvSize))
          \/ Take(inbuf[c], RecvSize) = <<>>
       THEN /\ pc' = [pc EXCEPT ![c] = "except"]
            /\ UNCHANGED request_data
       ELSE /\ request_data' = [request_data EXCEPT ![c] = Take(inbuf[c], RecvSize)]
            /\ pc' = [pc EXCEPT ![c] = "process"]
    /\ UNCHANGED srvVars
    /\ UNCHANGED <<inbuf, headers, content, frame, wire, closes, touched>>

\* request_data = client_socket.recv(1024).decode('utf-8'); empty data
\* returns at once. recv and decode may raise.
Recv(c) ==
    /\ pc[c] = "recv"
    /\ inbuf[c] # Nothing
    /\ IF inbuf[c] = Reset \/ ~Decodable(Take(inbuf[c], RecvSize))
       THEN /\ pc' = [pc EXCEPT ![c] = "except"]
            /\ UNCHANGED request_data
       ELSE /\ request_data' = [request_data EXCEPT ![c] = Take(inbuf[c], RecvSize)]
            /\ pc' = [pc EXCEPT ![c] =
                    IF Take(inbuf[c], RecvSize) = <<>> THEN "close" ELSE "process"]
    /\ UNCHANGED srvVars
    /\ UNCHANGED <<inbuf, headers, content, frame, wire, closes, touched>>

\* _process_request up to an error response: 400, 405, or the 403 and 404
\* of handle_get_request.
ProcessError(c) ==
    /\ pc[c] = "process"
    /\ \E d \in {Dispatch[request_data[c]]} :
           /\ d.act = "error"
           /\ send_error(c, d.status, "process", d.calls)
    /\ UNCHANGED srvVars
    /\ UNCHANGED <<inbuf, request_data, wire, closes>>

\* serve_file with the bytes _read_file_content returned: the 200 response
\* is ready to be sent inside serve_file's try.
FileReady(c, file_path, data) ==
    /\ content' = [content EXCEPT ![c] = data]
    /\ headers' = [headers EXCEPT ![c] =
            _build_response_headers(200, "OK", MimeType[file_path], Len(data))]
    /\ frame' = [frame EXCEPT ![c] = "serve"]
    /\ pc' = [pc EXCEPT ![c] = "send_headers"]

\* _process_request up to serve_file, whose _read_file_content succeeds.
ProcessServe(c) ==
    /\ pc[c] = "process"
    /\ \E d \in {Dispatch[request_data[c]]} :
           /\ d.act = "serve"
           /\ touched' = [touched EXCEPT ![c] = @ \cup d.calls \cup {<<"open", d.path>>}]
           /\ FileReady(c, d.path, FileData(page404)[Node[d.path]])
    /\ UNCHANGED srvVars
    /\ UNCHANGED <<inbuf, request_data, wire, closes>>

\* _process_request up to serve_file, whose _read_file_content raises
\* IOError: serve_file's except clause calls send_error(500).
ProcessReadFails(c) ==
    /\ pc[c] = "process"
    /\ \E d \in {Dispatch[request_data[c]]} :
           /\ d.act = "serve"
           /\ send_error(c, 500, "serve", d.calls \cup {<<"open", d.path>>})
    /\ UNCHANGED srvVars
    /\ UNCHANGED <<inbuf, request_data, wire, closes>>

\* The numbers of units a socket send may accept of a buffer: all of it,
\* or all but a few trailing ones, at least one.
Accepted(data) ==
    {n \in 0..Len(data) : n = Len(data) \/ (n >= 1 /\ Len(data) - n <= MaxShort)}

\* _send_response: client_socket.send(header_data); the count send returns
\* is not looked at.
SendHeaders(c) ==
    /\ pc[c] = "send_headers"
    /\ \E n \in Accepted(HeaderData(headers[c])) :
           wire' = [wire EXCEPT ![c] = @ \o Take(HeaderData(headers[c]), n)]
    /\ pc' = [pc EXCEPT ![c] = "send_content"]
    /\ UNCHANGED srvVars
    /\ UNCHANGED <<inbuf, request_data, headers, content, frame, closes, touched>>

\* SendContent with a slip: the content is kept in one buffer shared by
\* all handlers (the first connection's) instead of a local of the handler.
SendContentShared(c) ==
    /\ pc[c] = "send_content"
    /\ \E n \in Accepted(ContentData(content[1])) :
           wire' = [wire EXCEPT ![c] = @ \o Take(ContentData(content[1]), n)]
    /\ pc' = [pc EXCEPT ![c] = "close"]
    /\ UNCHANGED srvVars
    /\ UNCHANGED <<inbuf, request_data, headers, content, frame, closes, touched>>

\* _send_response: client_socket.send(content); then the response is done
\* and handle_client reaches its finally.
SendContent(c) ==
    /\ pc[c] = "send_content"
    /\ \E n \in Accepted(ContentData(content[c])) :
           wire' = [wire EXCEPT ![c] = @ \o Take(ContentData(content[c]), n)]
    /\ pc' = [pc EXCEPT ![c] = "close"]
    /\ UNCHANGED srvVars
    /\ UNCHANGED <<inbuf, request_data, headers, content, frame, closes, touched>>

\* One of the two sends raises (the peer is gone, or another socket
\* error). Inside send_error the exception is swallowed. Inside serve_file
\* the except clause answers with send_error(500) on the same connection.
SendFails(c) ==
    /\ pc[c] \in {"send_headers", "send_content"}
    /\ IF frame[c] = "serve"
       THEN send_error(c, 500, "serve", {})
       ELSE /\ pc' = [pc EXCEPT ![c] = "close"]
            /\ UNCHANGED <<headers, content, frame, touched>>
    /\ UNCHANGED srvVars
    /\ UNCHANGED <<inbuf, request_data, wire, closes>>

\* HandleException with a slip: the except clause closes the socket
\* itself, before the finally closes it again.
HandleExceptionClosing(c) ==
    /\ pc[c] = "except"
    /\ send_error(c, 500, "except", {})
    /\ closes' = [closes EXCEPT ![c] = @ + 1]
    /\ UNCHANGED srvVars
    /\ UNCHANGED <<inbuf, request_data, wire>>

\* HandleException with a slip: nothing catches the exception inside the
\* handler, it reaches the acceptor and breaks its loop.
HandleExceptionEscapes(c) ==
    /\ pc[c] = "except"
    /\ pc' = [pc EXCEPT ![c] = "close"]
    /\ srv' = "cleanup"
    /\ UNCHANGED <<running, lsock, lcloses, page404, stopping>>
    /\ UNCHANGED <<inbuf, request_data, headers, content, frame, wire, closes, touched>>

\* handle_client's except clause: _send_error_safe(500).
HandleException(c) ==
    /\ pc[c] = "except"
    /\ send_error(c, 500, "except", {})
    /\ UNCHANGED srvVars
    /\ UNCHANGED <<inbuf, request_data, wire, closes>>

\* CloseClient with a slip: the socket is closed before the content is
\* sent, not in the finally clause after it.
CloseClientBeforeContent(c) ==
    /\ pc[c] = "close"
    /\ closes' = [closes EXCEPT ![c] = @ + 1]
    /\ pc' = [pc EXCEPT ![c] = IF closes[c] = 0 /\ frame[c] # "none"
                                THEN "send_content" ELSE "done"]
    /\ UNCHANGED srvVars
    /\ UNCHANGED <<inbuf, request_data, headers, content, frame, wire, touched>>

\* handle_client's finally: _close_client_socket.
CloseClient(c) ==
    /\ pc[c] = "close"
    /\ closes' = [closes EXCEPT ![c] = @ + 1]
    /\ pc' = [pc EXCEPT ![c] = "done"]
    /\ UNCHANGED srvVars
    /\ UNCHANGED <<inbuf, request_data, headers, content, frame, wire, touched>>

Handler(c) ==
    \/ Recv(c)
    \/ ProcessError(c)
    \/ ProcessServe(c)
    \/ ProcessReadFails(c)
    \/ SendHeaders(c)
    \/ SendContent(c)
    \/ SendFails(c)
    \/ HandleException(c)
    \/ CloseClient(c)

Acceptor(conns) ==
    \/ SetupSocket
    \/ SetupOptions
    \/ SetupFails
    \/ BindAndListen
    \/ BindFails
    \/ EnterLoop
    \/ LoopTest
    \/ AcceptTimeout
    \/ AcceptFails
    \/ Interrupt
    \/ Cleanup
    \/ Exit
    \/ \E c \in conns : Accept(c)

\* The only connection of the specifications about one handler.
First == {1}

\* The server accepting the connections conns, with peers that send
\* requests out of reqs.
NextOn(reqs, conns) ==
    \/ Acceptor(conns)
    \/ Stop
    \/ \E c \in Conns : PeerActs(c, reqs)
    \/ \E c \in Conns : Handler(c)

\* Peers that exercise every way through the handler.
Next == NextOn(CoreRequests, First)

Spec == Init /\ [][Next]_vars

\* Peers that send every shape of request line.
ParseNext == NextOn(ParseRequests, First)

ParseSpec == Init /\ [][ParseNext]_vars

\* Peers that send requests with a method other than GET.
MethodNext == NextOn(MethodRequests, First)

MethodSpec == Init /\ [][MethodNext]_vars

\* Peers that send GET requests for every target.
PathNext == NextOn(PathRequests, First)

PathSpec == Init /\ [][PathNext]_vars

\* Every connection is accepted: handlers run side by side.
PairNext == NextOn(PairRequests, Conns)

PairSpec == Init /\ [][PairNext]_vars

\* The threads the interpreter schedules keep running: every handler step
\* and every acceptor step that can be taken is taken. Nothing obliges a
\* peer to send, an operator to call stop(), or an accept to fail.
FairSpec ==
    /\ Spec
    /\ \A c \in Conns : WF_vars(Handler(c))
    /\ WF_vars(SetupSocket \/ SetupOptions \/ BindAndListen \/ EnterLoop \/ LoopTest \/ AcceptTimeout \/ Cleanup \/ Exit)

(***************************************************************************)
(* What a peer sees on a connection, and what a handler was asked          *)
(***************************************************************************)
\* The positions of the status lines among the units sent on a connection.
StatusLines(w) == {i \in 1..Len(w) : w[i][1] = "HTTP/1.1 "}

\* The status codes of the responses started on a connection.
StatusCodes(w) == {w[i][2] : i \in StatusLines(w)}

\* The position of the empty line that ends the first header block, 0 when
\* it was not sent.
HeaderEnd(w) ==
    IF \E i \in 2..Len(w) : w[i - 1] = CRLF /\ w[i] = CRLF
    THEN CHOOSE i \in 2..Len(w) :
            /\ w[i - 1] = CRLF /\ w[i] = CRLF
            /\ \A j \in 2..(i - 1) : ~(w[j - 1] = CRLF /\ w[j] = CRLF)
    ELSE 0

\* The body of the first response: what follows its header block.
BodyOf(w) == IF HeaderEnd(w) = 0 THEN <<>> ELSE Drop(w, HeaderEnd(w))

\* The header lines of the first response.
HeadOf(w) == {w[i] : i \in 1..(IF HeaderEnd(w) = 0 THEN Len(w) ELSE HeaderEnd(w))}

\* The handler of c has decoded its request and is past _process_request's
\* dispatch.
Processed(c) == request_data[c] # <<>> /\ pc[c] # "process"

TokensOf(c) == Parts(request_data[c])

\* The request of c is a GET with a target.
IsGet(c) == Processed(c) /\ Len(TokensOf(c)) >= 2 /\ TokensOf(c)[1] = GET

\* A version token of the form HTTP/1.<digit>.
IsHttp1x(v) ==
    Len(v) = 8 /\ Take(v, 7) = <<"H", "T", "T", "P", "/", "1", ".">> /\ v[8] \in Digits

\* A path that is the document root or lies below it, component-wise.
IsUnder(path) == path = www_dir \/ StartsWith(path, www_dir \o <<"/">>)

\* The files a handler opened, as normalised absolute paths.
Opened(c) == {AbsPath(call[2]) : call \in {k \in touched[c] : k[1] = "open"}}

(***************************************************************************)
(* C1                                                                      *)
(***************************************************************************)
\* C1: a GET whose percent-decoded, normalised path lies outside the
\* document root is answered 403 only, and its handler opens no file
\* outside the document root.
C1_TraversalForbidden ==
    \A c \in Conns :
        (IsGet(c) /\ ~IsUnder(AbsPath(ResolveCandidate(TokensOf(c)[2]))))
        => /\ StatusCodes(wire[c]) \subseteq {"403"}
           /\ \A f \in Opened(c) : IsUnder(f)

(***************************************************************************)
(* C2                                                                      *)
(***************************************************************************)
\* C2: a connection is closed exactly once by its handler: never before
\* the handler has ended, once when it has, on whichever path it ended.
C2_ClosedExactlyOnce ==
    \A c \in Conns : closes[c] = (IF pc[c] = "done" THEN 1 ELSE 0)

\* A handler that went through handle_client's except clause, sent the 500
\* response and has closed its connection.
C2_ClosedAfterException ==
    \E c \in Conns :
        /\ pc[c] = "done" /\ closes[c] = 1
        /\ request_data[c] = <<>> /\ inbuf[c] # Eof
        /\ StatusCodes(wire[c]) = {"500"}

(***************************************************************************)
(* C3                                                                      *)
(***************************************************************************)
\* C3: at most one response is ever started on a connection.
C3_SingleResponse == \A c \in Conns : Cardinality(StatusLines(wire[c])) <= 1

(***************************************************************************)
(* C4                                                                      *)
(***************************************************************************)
\* C4: every accepted connection is eventually closed, whatever its peer
\* does or fails to do. The end of start() is let count as a close too: the
\* handler threads are daemon threads and die with the process.
C4_EventuallyClosed ==
    \A c \in Conns : (pc[c] = "recv") ~> (closes[c] = 1 \/ srv = "stopped")

(***************************************************************************)
(* C5                                                                      *)
(***************************************************************************)
\* C5: when serve_file has sent a file without any exception, the peer has
\* received status 200, a Content-Length equal to the file's size and a
\* body equal to the whole file.
C5_WholeFileOnWire ==
    \A c \in Conns :
        (pc[c] = "done" /\ frame[c] = "serve")
        => /\ StatusCodes(wire[c]) = {"200"}
           /\ <<"Content-Length: ", ToString(Len(content[c]))>> \in HeadOf(wire[c])
           /\ content[c] = FileData(page404)[Node[Dispatch[request_data[c]].path]]
           /\ BodyOf(wire[c]) = ContentData(content[c])

(***************************************************************************)
(* C6                                                                      *)
(***************************************************************************)
\* C6: a request line that does not have exactly three tokens is answered
\* with 400 and nothing else.
C6_MalformedIs400 ==
    \A c \in Conns :
        (Processed(c) /\ Len(TokensOf(c)) # 3) => StatusCodes(wire[c]) \subseteq {"400"}

(***************************************************************************)
(* C7                                                                      *)
(***************************************************************************)
\* The request of c has three tokens, an HTTP/1.x version and a method
\* other than GET.
WellFormedNonGet(c) ==
    /\ Processed(c)
    /\ Len(TokensOf(c)) = 3
    /\ IsHttp1x(TokensOf(c)[3])
    /\ TokensOf(c)[1] # GET

\* C7: a request with three tokens, an HTTP/1.x version and a method other
\* than GET is answered with 405 and nothing else: its handler never ends
\* without having built the 405 response, and consults neither the path
\* resolver nor the file system.
C7_NonGetIs405 ==
    \A c \in Conns :
        WellFormedNonGet(c)
        => /\ StatusCodes(wire[c]) \subseteq {"405"}
           /\ (pc[c] = "done" => frame[c] = "error")
           /\ touched[c] = {}

(***************************************************************************)
(* C8                                                                      *)
(***************************************************************************)
\* C8: a three-token request line whose version is not HTTP/1.<digit> is
\* answered with 400 and nothing else, and no file is served.
C8_BadVersionIs400 ==
    \A c \in Conns :
        (Processed(c) /\ Len(TokensOf(c)) = 3 /\ ~IsHttp1x(TokensOf(c)[3]))
        => /\ StatusCodes(wire[c]) \subseteq {"400"}
           /\ Opened(c) \subseteq {Path404}

(***************************************************************************)
(* C9                                                                      *)
(***************************************************************************)
\* C9: a GET that resolves to a directory inside the document root is
\* answered with the directory's index.html when there is one, and with
\* 403, not 404, when there is none.
C9_DirectoryWithoutIndexIs403 ==
    \A c \in Conns :
        (/\ IsGet(c)
         /\ IsUnder(AbsPath(ResolveCandidate(TokensOf(c)[2])))
         /\ IsDir(ResolveCandidate(TokensOf(c)[2])))
        => IF IsFile(PathJoin(ResolveCandidate(TokensOf(c)[2]), IndexHtml))
           THEN frame[c] = "serve" => StatusCodes(wire[c]) \subseteq {"200"}
           ELSE StatusCodes(wire[c]) \subseteq {"403"}

(***************************************************************************)
(* C10                                                                     *)
(***************************************************************************)
\* The extensions the specification's denylist names.
Denylist == {<<".", "p", "h", "p">>, <<".", "j", "s", "p">>, <<".", "a", "s", "p">>}

\* The extension of the decoded path of a target.
TargetExt(target) ==
    ExtOf(Drop(Unquote(UrlPath(target)), RFindAny(Unquote(UrlPath(target)), {"/"})))

\* C10: a GET for a target with a denylisted extension is answered with
\* 501 and nothing else, and the file is never opened.
C10_DenylistedIs501 ==
    \A c \in Conns :
        (IsGet(c) /\ TargetExt(TokensOf(c)[2]) \in Denylist)
        => /\ StatusCodes(wire[c]) \subseteq {"501"}
           /\ Opened(c) \subseteq {Path404}

(***************************************************************************)
(* C11                                                                     *)
(***************************************************************************)
\* Everything the model holds about one connection and its handler.
Local(c) ==
    <<pc[c], inbuf[c], request_data[c], headers[c], content[c], frame[c], wire[c],
      closes[c], touched[c]>>

\* The handler of c has met a failure: its recv or decode raised, or it
\* is in or past handle_client's except clause or an error response.
Failed(c) ==
    \/ pc[c] = "except"
    \/ pc[c] \notin {"idle", "recv"} /\ request_data[c] = <<>> /\ inbuf[c] # Eof
    \/ frame[c] = "error"

\* C11: no step of a handler, a failing one included, changes the state of
\* the acceptor (the loop position, the running flag, the listening
\* socket) or anything of another connection: the failure stays inside
\* handle_client, whose next step is then its except clause or its close.
C11_FailuresStayInside ==
    [][\A c \in Conns :
         Handler(c)
         => /\ UNCHANGED <<running, srv, lsock, lcloses, stopping>>
            /\ \A d \in Conns \ {c} : Local(d)' = Local(d)
            /\ pc[c] = "except" => pc'[c] \in {"send_headers", "close"}]_vars

\* One handler has failed and is done, another one accepted before or
\* after it has sent its whole 200 response and is done, and the acceptor
\* is still in its loop.
C11_OtherHandlerCompletes ==
    \E c, d \in Conns :
        /\ c # d
        /\ pc[c] = "done" /\ Failed(c) /\ StatusCodes(wire[c]) = {"500"}
        /\ pc[d] = "done" /\ frame[d] = "serve"
        /\ wire[d] = HeaderData(headers[d]) \o ContentData(content[d])
        /\ running /\ srv \in {"loop", "accept"}

(***************************************************************************)
(* C12                                                                     *)
(***************************************************************************)
\* C12: once stop() has been called, at any moment from the entry of
\* start() on, the acceptor eventually leaves its loop, start() ends and
\* the listening socket is closed. (A start() that ended inside
\* _setup_socket, before its try, has closed nothing: that case is left
\* aside here.)
C12_StopEndsLoop ==
    stopping ~> (srv \in {"stopped", "exited"} /\ (lsock = "closed" \/ lcloses = 0))

(***************************************************************************)
(* C13                                                                     *)
(***************************************************************************)
\* C13: a handler that was started is never cut short by the server's
\* stop: it runs on to its close after start() has returned. Stated for
\* a server stopped by stop() or a KeyboardInterrupt (the running flag is
\* cleared) and for the handlers that have read their request, which have
\* no read left to wait for.
C13_HandlersRunToCompletion ==
    \A c \in Conns : ~(~running /\ pc[c] = "killed" /\ request_data[c] # <<>>)

(***************************************************************************)
(* C14                                                                     *)
(***************************************************************************)
\* The file serve_file sends for the request of c.
ServedFile(c) == FileData(page404)[Node[Dispatch[request_data[c]].path]]

\* The header block a handler alone builds for the request of c.
LoneHeaders(c) ==
    _build_response_headers(200, "OK", MimeType[Dispatch[request_data[c]].path],
                            Len(ServedFile(c)))

\* What the two sends of _send_response can have put on a connection.
SentOf(head, body) ==
    {Take(head, n) \o Take(body, m) :
        n \in Accepted(head), m \in Accepted(body) \cup {0}}

\* C14: with handlers running side by side under any interleaving, a
\* handler that serves a file holds the headers and the content a lone
\* handler builds for its request, what is on its connection is what its
\* own sends of them put there, and no send of a handler writes to
\* another connection.
C14_IndependentResponses ==
    /\ [](\A c \in Conns :
            frame[c] = "serve"
            => /\ headers[c] = LoneHeaders(c)
               /\ content[c] = ServedFile(c)
               /\ wire[c] \in SentOf(HeaderData(headers[c]), ContentData(content[c]))
                              \cup {<<>>})
    /\ [][\A c \in Conns :
            (SendHeaders(c) \/ SendContent(c))
            => \A d \in Conns \ {c} : wire'[d] = wire[d]]_vars

\* Two handlers serve the same file at the same time: both have sent their
\* 200 header block and neither has sent its content yet.
C14_TwoServeSameFile ==
    \E c, d \in Conns :
        /\ c # d
        /\ request_data[c] = GetIndex /\ request_data[d] = GetIndex
        /\ frame[c] = "serve" /\ frame[d] = "serve"
        /\ pc[c] = "send_content" /\ pc[d] = "send_content"
        /\ wire[c] = HeaderData(LoneHeaders(c)) /\ wire[d] = wire[c]

NotAbsolutePathForm(target) ==
    \/ UrlScheme(Unquote(target)) # <<>>
    \/ StartsWith(Unquote(target), <<"/", "/">>)

\* C16: a GET whose target begins with a scheme or an authority is
\* rejected: it is never passed to serve_file and never answered with 200.
C16_AbsoluteFormRejected ==
    \A c \in Conns :
        (IsGet(c) /\ NotAbsolutePathForm(TokensOf(c)[2]))
        => /\ frame[c] # "serve"
           /\ "200" \notin StatusCodes(wire[c])

(***************************************************************************)
(* C17                                                                     *)
(***************************************************************************)
NotCRLF(unit) == unit # CRLF

\* The lines of the first header block on a connection, without their
\* line ends.
HeaderLines(w) == SelectSeq(Take(w, HeaderEnd(w)), NotCRLF)

\* What each line of a header block starts with, in order.
HeaderOrder ==
    <<"HTTP/1.1 ", "Date: ", "Server: ", "Content-Type: ", "Content-Length: ",
      "Connection: close">>

\* C17: every header block that has been sent in full consists of the
\* status line, Date, Server, Content-Type, Content-Length and
\* "Connection: close", in this order, each ended by CRLF, and of one
\* empty line.
C17_HeaderBlockOrder ==
    \A c \in Conns :
        HeaderEnd(wire[c]) # 0
        => /\ Len(HeaderLines(wire[c])) = Len(HeaderOrder)
           /\ \A i \in 1..Len(HeaderOrder) : HeaderLines(wire[c])[i][1] = HeaderOrder[i]
           /\ \A i \in 1..(HeaderEnd(wire[c]) - 1) : (i % 2 = 0) = (wire[c][i] = CRLF)

(***************************************************************************)
(* C18                                                                     *)
(***************************************************************************)
\* The target names the root: its decoded path, without query and
\* fragment, is "/", empty or ".".
NamesRoot(target) == Unquote(UrlPath(target)) \in {<<"/">>, <<>>, <<".">>}

\* The headers and the body serve_file builds for GET /index.html.
IndexBody == FileData(page404)[Node[Dispatch[GetIndex].path]]

IndexHeaders ==
    _build_response_headers(200, "OK", MimeType[Dispatch[GetIndex].path], Len(IndexBody))

\* C18: www/index.html exists, and a GET whose target names the root, with
\* or without a query string, is passed to serve_file like GET /index.html
\* and never rejected: the headers (status 200 included) and the body it
\* sends are those of GET /index.html, and an error response, if any, is
\* the 500 of a failed read or send.
C18_RootIsIndex ==
    \A c \in Conns :
        (IsGet(c) /\ NamesRoot(TokensOf(c)[2]))
        => /\ Dispatch[GetIndex].act = "serve"
           /\ Dispatch[request_data[c]].act = "serve"
           /\ frame[c] = "serve" => headers[c] = IndexHeaders /\ content[c] = IndexBody
           /\ frame[c] = "error" => headers[c][1][2] = "500"
           /\ StatusCodes(wire[c]) \subseteq {"200", "500"}

\* A GET of "." or of a root with a query string has been answered in full
\* with the response of GET /index.html.
C18_RootServedAsIndex ==
    \E c \in Conns :
        /\ IsGet(c) /\ TokensOf(c)[2] \in {<<".">>, <<"?", "q">>, <<"/", "?", "q">>}
        /\ pc[c] = "done" /\ frame[c] = "serve"
        /\ wire[c] = HeaderData(IndexHeaders) \o ContentData(IndexBody)

(***************************************************************************)
(* C19                                                                     *)
(***************************************************************************)
\* C19: on every connection the handler receives once, then writes, then
\* closes. Something is on the wire only after the receive has returned
\* data that is not empty or has raised; a write happens only in one of
\* the two sends of _send_response, before the close; a handler past its
\* receive never receives again; and once the handler has closed the
\* connection nothing of it changes any more.
C19_ReceiveWriteClose ==
    /\ [](\A c \in Conns :
            wire[c] # <<>> => pc[c] \notin {"idle", "recv"} /\ inbuf[c] \notin {Nothing, Eof})
    /\ [][\A c \in Conns :
            /\ wire'[c] # wire[c]
               => closes[c] = 0 /\ pc[c] \in {"send_headers", "send_content"}
            /\ pc[c] \notin {"idle", "recv"} => pc'[c] # "recv"
            /\ request_data'[c] # request_data[c] => pc[c] = "recv"
            /\ closes[c] > 0 => Local(c)' = Local(c)]_vars

\* A request with a one-token line was received, answered in full with
\* 400, and the connection was closed after that.
C19_AnsweredThenClosed ==
    \E c \in Conns :
        /\ request_data[c] = Req(<<GET>>)
        /\ pc[c] = "done" /\ closes[c] = 1
        /\ StatusCodes(wire[c]) = {"400"}
        /\ wire[c] = HeaderData(headers[c]) \o ContentData(content[c])

(***************************************************************************)
(* C20                                                                     *)
(***************************************************************************)
\* C20: the acceptor leaves its loop only when the loop test finds the
\* flag cleared, on a KeyboardInterrupt or on an exception of accept or
\* of the thread start that is not a timeout; an accept timeout leads
\* back to the loop test; and when start() has ended with the listening
\* socket created, _cleanup has closed that socket, once.
C20_LoopExitsAndCleanup ==
    /\ [](srv \in {"stopped", "exited"} /\ lsock # "none"
            => lsock = "closed" /\ lcloses = 1)
    /\ [](lcloses <= 1)
    /\ [][/\ AcceptTimeout => srv' = "loop"
          /\ (srv \in {"loop", "accept"} /\ srv' \notin {"loop", "accept"})
             => \/ LoopTest /\ ~running
                \/ Interrupt
                \/ AcceptFails]_vars


=============================================================================
